---- MODULE Spec2Model ----
(***************************************************************************)
(* Model of func_cheater_stats: the chat-partitioned persistence layer     *)
(* (src/src/db.rs), the text classifier (src/src/message_parse.rs) and the *)
(* message/command handlers of the bot (src/src/main.rs).                  *)
(***************************************************************************)
EXTENDS FiniteSets, Integers, Sequences, TLC

VARIABLES
    users,      \* Persist.users: sled tree, serialized ChatId -> serialized roster
    messages,   \* Persist.messages: sled tree, serialized ChatId -> serialized log
    ret,        \* the call that finished last and what it returned
    hist,       \* per chat: messages appended since the last clear, and how many a clear dropped
    inflight,   \* per thread: the add_message call between its get and its insert
    last,       \* the update the bot handled last: its Persist results and its reply
    nops,       \* number of calls made so far
    boot,       \* main before the dispatcher: the export file and how far its import got
    pending     \* the handlers suspended at the await of their reply

vars == <<users, messages, ret, hist, inflight, last, nops, boot, pending>>

----------------------------------------------------------------------------
(* Bounds and input domains *)

MaxOps == 4
MaxFaultOps == 2
MaxRaceCalls == 2
MaxBotOps == 2

ChatIds == {1, 2}
UserIds == {1, 2}
Threads == {1, 2}

----------------------------------------------------------------------------
(* Option<T> and Result<T, MainError>; a panic (unwrap on Err) is a third outcome *)

None == [some |-> FALSE, v |-> ""]
Some(x) == [some |-> TRUE, v |-> x]

Ok(x) == [outcome |-> "Ok", v |-> x]
Err == [outcome |-> "Err", v |-> <<>>]
Panic == [outcome |-> "panic", v |-> <<>>]

----------------------------------------------------------------------------
(* Texts are sequences of characters *)

LinkText == <<"h","t","t","p","s",":","/","/","p","a","s","t","e","b","i","n",".","c","o","m","/">>

TextFoo == <<"4"," ","k","y","u"," ","F","o","o"," ">> \o LinkText \o <<"a">>
TextBar == <<"5"," ","B","a","r"," ">> \o LinkText \o <<"b">>

\* db.rs ChatMessage { id, text, from }: two entries share the transport id 1
ChatMessages ==
    { [id |-> 1, text |-> TextFoo, from |-> 1],
      [id |-> 1, text |-> TextBar, from |-> 2],
      [id |-> 2, text |-> TextFoo, from |-> 2] }

\* db.rs CodeUser { username, firstname, telegram_id, codewars_name }
CodeUsers ==
    { [username |-> None, firstname |-> "Ann", telegram_id |-> u, codewars_name |-> "cw_a"] : u \in UserIds }
    \cup
    { [username |-> Some("bob"), firstname |-> "Bob", telegram_id |-> u, codewars_name |-> "cw_b"] : u \in UserIds }

----------------------------------------------------------------------------
(* serde_json: values are modelled as JSON syntax trees <<kind, payload>> *)

JNull == <<"null", <<>>>>
JNum(n) == <<"num", n>>
JStr(s) == <<"str", s>>
JArr(items) == <<"arr", items>>
JObj(members) == <<"obj", members>>

Kind(j) == j[1]
Payload(j) == j[2]

\* indices of the members of a JSON object that carry the name
MembersNamed(j, name) == { i \in DOMAIN Payload(j) : Payload(j)[i][1] = name }

HasField(j, name, kinds) ==
    /\ Cardinality(MembersNamed(j, name)) = 1
    /\ \A i \in MembersNamed(j, name) : Kind(Payload(j)[i][2]) \in kinds

Field(j, name) == Payload(j)[CHOOSE i \in MembersNamed(j, name) : TRUE][2]

\* serde_json::to_vec(&chat_id): ChatId(i64) is a newtype, written as the number
to_vec_ChatId_shared(chat_id) == JNum(0)
to_vec_ChatId(chat_id) == JNum(chat_id)

\* #[derive(Serialize)] ChatMessage: an object with the fields in declaration order
ser_ChatMessage(m) ==
    JObj(<< <<"id", JNum(m.id)>>, <<"text", JStr(m.text)>>, <<"from", JNum(m.from)>> >>)

\* #[derive(Deserialize)] ChatMessage
de_ChatMessage(j) ==
    IF /\ Kind(j) = "obj"
       /\ HasField(j, "id", {"num"})
       /\ HasField(j, "text", {"str"})
       /\ HasField(j, "from", {"num"})
    THEN Ok([id |-> Payload(Field(j, "id")),
             text |-> Payload(Field(j, "text")),
             from |-> Payload(Field(j, "from"))])
    ELSE Err

\* serde_json::to_vec(&Vec<ChatMessage>): a JSON array in vector order
to_vec_messages(vec) == JArr([i \in 1..Len(vec) |-> ser_ChatMessage(vec[i])])

\* serde_json::from_slice::<Vec<ChatMessage>>
from_slice_messages_or_default(bytes) ==
    IF /\ Kind(bytes) = "arr"
       /\ \A i \in DOMAIN Payload(bytes) : de_ChatMessage(Payload(bytes)[i]).outcome = "Ok"
    THEN Ok([i \in DOMAIN Payload(bytes) |-> de_ChatMessage(Payload(bytes)[i]).v])
    ELSE Ok(<<>>)
from_slice_messages(bytes) ==
    IF /\ Kind(bytes) = "arr"
       /\ \A i \in DOMAIN Payload(bytes) : de_ChatMessage(Payload(bytes)[i]).outcome = "Ok"
    THEN Ok([i \in DOMAIN Payload(bytes) |-> de_ChatMessage(Payload(bytes)[i]).v])
    ELSE Err

\* #[derive(Serialize)] CodeUser: Option<String> is null or a string
ser_CodeUser(u) ==
    JObj(<< <<"username", IF u.username.some THEN JStr(u.username.v) ELSE JNull>>,
            <<"firstname", JStr(u.firstname)>>,
            <<"telegram_id", JNum(u.telegram_id)>>,
            <<"codewars_name", JStr(u.codewars_name)>> >>)

\* #[derive(Deserialize)] CodeUser
de_CodeUser(j) ==
    IF /\ Kind(j) = "obj"
       /\ HasField(j, "username", {"null", "str"})
       /\ HasField(j, "firstname", {"str"})
       /\ HasField(j, "telegram_id", {"num"})
       /\ HasField(j, "codewars_name", {"str"})
    THEN Ok([username |-> IF Kind(Field(j, "username")) = "str"
                          THEN Some(Payload(Field(j, "username"))) ELSE None,
             firstname |-> Payload(Field(j, "firstname")),
             telegram_id |-> Payload(Field(j, "telegram_id")),
             codewars_name |-> Payload(Field(j, "codewars_name"))])
    ELSE Err

\* the orders in which a HashMap may iterate over its keys
Orders(S) ==
    { s \in [1..Cardinality(S) -> S] : \A i, j \in DOMAIN s : i # j => s[i] # s[j] }

\* a JSON object key of a map keyed by UserId(i32): the decimal text of the number
key_of_UserId(id) == ToString(id)

\* the reverse: parse the key text as an i32
parse_UserId(s) ==
    IF \E n \in UserIds : ToString(n) = s
    THEN Ok(CHOOSE n \in UserIds : ToString(n) = s)
    ELSE Err

\* serde_json::to_vec(&HashMap<UserId, CodeUser>): one object member per entry, in
\* the map's iteration order, which is unspecified: the set of possible byte values
to_vec_users(map) ==
    { JObj([i \in 1..Len(ord) |-> <<key_of_UserId(ord[i]), ser_CodeUser(map[ord[i]])>>]) :
        ord \in Orders(DOMAIN map) }

\* serde_json::from_slice::<HashMap<UserId, CodeUser>>: a later member with the same
\* key replaces an earlier one
from_slice_users(bytes) ==
    IF /\ Kind(bytes) = "obj"
       /\ \A i \in DOMAIN Payload(bytes) :
            /\ parse_UserId(Payload(bytes)[i][1]).outcome = "Ok"
            /\ de_CodeUser(Payload(bytes)[i][2]).outcome = "Ok"
    THEN LET mem == Payload(bytes)
             keys == { parse_UserId(mem[i][1]).v : i \in DOMAIN mem }
             last_member(k) == CHOOSE i \in DOMAIN mem :
                            /\ parse_UserId(mem[i][1]).v = k
                            /\ \A j \in DOMAIN mem : parse_UserId(mem[j][1]).v = k => j <= i
         IN Ok([k \in keys |-> de_CodeUser(mem[last_member(k)][2]).v])
    ELSE Err

\* the empty HashMap
EmptyMap == [k \in {} |-> None]

----------------------------------------------------------------------------
(* sled: a tree is a map from the keys present to their bytes *)

EmptyTree == [k \in {} |-> JNull]

sled_get(tree, key) ==
    IF key \in DOMAIN tree THEN Some(tree[key]) ELSE None

sled_insert(tree, key, value) ==
    [k \in DOMAIN tree \cup {key} |-> IF k = key THEN value ELSE tree[k]]

----------------------------------------------------------------------------
(* db.rs: Persist.  Every operation takes the tree it works on and says whether  *)
(* the store fails its get (get_fails) or its insert (put_fails) with an I/O     *)
(* error; it yields the set of possible results [outcome, v, tree], tree being   *)
(* the tree after the call.                                                      *)

Done(outcome, v, tree) == [outcome |-> outcome, v |-> v, tree |-> tree]

\* Vec::push (db.rs:61)
push_twice(vec, msg) == Append(Append(vec, msg), msg)
push_front(vec, msg) == <<msg>> \o vec
push(vec, msg) == Append(vec, msg)

\* HashMap::insert(user.telegram_id, user) (db.rs:82)
map_insert_keep_old(map, user) ==
    [k \in DOMAIN map \cup {user.telegram_id} |->
        IF k \in DOMAIN map THEN map[k] ELSE user]
map_insert(map, user) ==
    [k \in DOMAIN map \cup {user.telegram_id} |->
        IF k = user.telegram_id THEN user ELSE map[k]]

\* HashMap::remove(&user_to_remove) (db.rs:101)
map_remove_others(map, id) == [k \in DOMAIN map \cap {id} |-> map[k]]
map_remove(map, id) == [k \in DOMAIN map \ {id} |-> map[k]]

\* add_message, first half: get, decode (absent: Vec::new()), push
add_message_load(tree, chat_id, msg, get_fails) ==
    IF get_fails THEN Panic
    ELSE LET got == sled_get(tree, to_vec_ChatId(chat_id))
             vec == IF got.some THEN from_slice_messages(got.v) ELSE Ok(<<>>)
         IN IF vec.outcome = "Ok" THEN Ok(push(vec.v, msg)) ELSE Err

\* add_message, second half: insert the whole vector
add_message_store(tree, chat_id, vec, put_fails) ==
    IF put_fails THEN Done("panic", <<>>, tree)
    ELSE Done("Ok", <<>>, sled_insert(tree, to_vec_ChatId(chat_id), to_vec_messages(vec)))

add_message(tree, chat_id, msg, get_fails, put_fails) ==
    LET loaded == add_message_load(tree, chat_id, msg, get_fails)
    IN IF loaded.outcome = "Ok"
       THEN {add_message_store(tree, chat_id, loaded.v, put_fails)}
       ELSE {Done(loaded.outcome, <<>>, tree)}

add_user(tree, chat_id, user, get_fails, put_fails) ==
    IF get_fails THEN {Done("panic", <<>>, tree)}
    ELSE LET got == sled_get(tree, to_vec_ChatId(chat_id))
             map == IF got.some THEN from_slice_users(got.v) ELSE Ok(EmptyMap)
         IN IF map.outcome # "Ok" THEN {Done("Err", <<>>, tree)}
            ELSE IF put_fails THEN {Done("panic", <<>>, tree)}
            ELSE { Done("Ok", <<>>, sled_insert(tree, to_vec_ChatId(chat_id), bytes)) :
                     bytes \in to_vec_users(map_insert(map.v, user)) }

remove_user(tree, chat_id, user_to_remove, get_fails, put_fails) ==
    IF get_fails THEN {Done("panic", <<>>, tree)}
    ELSE LET got == sled_get(tree, to_vec_ChatId(chat_id))
             map == IF got.some THEN from_slice_users(got.v) ELSE Ok(EmptyMap)
         IN IF map.outcome # "Ok" THEN {Done("Err", <<>>, tree)}
            ELSE IF put_fails THEN {Done("panic", <<>>, tree)}
            ELSE { Done("Ok", <<>>, sled_insert(tree, to_vec_ChatId(chat_id), bytes)) :
                     bytes \in to_vec_users(map_remove(map.v, user_to_remove)) }

clear_users_remove(tree, chat_id, put_fails) ==
    IF put_fails THEN {Done("Err", <<>>, tree)}
    ELSE {Done("Ok", <<>>, [k \in DOMAIN tree \ {to_vec_ChatId(chat_id)} |-> tree[k]])}
clear_users(tree, chat_id, put_fails) ==
    IF put_fails THEN {Done("Err", <<>>, tree)}
    ELSE { Done("Ok", <<>>, sled_insert(tree, to_vec_ChatId(chat_id), bytes)) :
             bytes \in to_vec_users(EmptyMap) }

clear_messages(tree, chat_id, put_fails) ==
    IF put_fails THEN {Done("Err", <<>>, tree)}
    ELSE {Done("Ok", <<>>, sled_insert(tree, to_vec_ChatId(chat_id), to_vec_messages(<<>>)))}

get_users_or_create(tree, chat_id, get_fails) ==
    IF get_fails THEN {Done("panic", <<>>, tree)}
    ELSE LET key == to_vec_ChatId(chat_id)
             got == sled_get(tree, key)
             map == IF got.some THEN from_slice_users(got.v) ELSE Ok(EmptyMap)
         IN IF got.some THEN {Done(map.outcome, map.v, tree)}
            ELSE { Done("Ok", EmptyMap, sled_insert(tree, key, bytes)) :
                     bytes \in to_vec_users(EmptyMap) }
get_users(tree, chat_id, get_fails) ==
    IF get_fails THEN {Done("panic", <<>>, tree)}
    ELSE LET got == sled_get(tree, to_vec_ChatId(chat_id))
             map == IF got.some THEN from_slice_users(got.v) ELSE Ok(EmptyMap)
         IN {Done(map.outcome, map.v, tree)}

get_messages(tree, chat_id, get_fails) ==
    IF get_fails THEN {Done("panic", <<>>, tree)}
    ELSE LET got == sled_get(tree, to_vec_ChatId(chat_id))
             vec == IF got.some THEN from_slice_messages(got.v) ELSE Ok(<<>>)
         IN {Done(vec.outcome, vec.v, tree)}

----------------------------------------------------------------------------
(* State after construction: both sled trees freshly created, no call made *)

\* what list_participants / list_messages return on a tree (no I/O failure)
Roster(tree, chat_id) == CHOOSE r \in get_users(tree, chat_id, FALSE) : TRUE
Log(tree, chat_id) == CHOOSE r \in get_messages(tree, chat_id, FALSE) : TRUE

\* the collection of a chat as a call finds it: is the key there, and what it decodes to
Before(tree, chat_id, listed) ==
    [had_key |-> to_vec_ChatId(chat_id) \in DOMAIN tree,
     outcome |-> listed.outcome,
     v |-> listed.v]

NoCall ==
    [op |-> "none", chat |-> 0, arg |-> <<>>, outcome |-> "Ok", v |-> <<>>,
     pre |-> [had_key |-> FALSE, outcome |-> "Ok", v |-> <<>>],
     io |-> [get_fails |-> FALSE, put_fails |-> FALSE]]

Call(op, chat, arg, r, pre, get_fails, put_fails) ==
    [op |-> op, chat |-> chat, arg |-> arg, outcome |-> r.outcome, v |-> r.v, pre |-> pre,
     io |-> [get_fails |-> get_fails, put_fails |-> put_fails]]

Idle == [busy |-> FALSE, chat |-> 0, msg |-> <<>>, vec |-> <<>>, done |-> <<>>]

NoHist == [c \in ChatIds |-> [log |-> <<>>, gone |-> 0]]

\* a reply of the bot: the text (without the names it formats in) and, for the
\* listing of solved katas, the lines that follow it
Reply(text, lines) == [text |-> text, lines |-> lines]
NoReply == Reply("", <<>>)

NoUpdate ==
    [handler |-> "none", chat |-> 0, from |-> None, arg |-> <<>>, core |-> <<>>,
     reply |-> NoReply, panicked |-> FALSE]

\* no handler is suspended
NoPending == [ticket \in {} |-> NoUpdate]

\* main past the import, or without an export file: the dispatcher runs
Live == [phase |-> "live", file |-> None, chat |-> 0, msg |-> 0]

Init ==
    /\ users = EmptyTree
    /\ messages = EmptyTree
    /\ ret = NoCall
    /\ hist = NoHist
    /\ inflight = [t \in Threads |-> Idle]
    /\ last = NoUpdate
    /\ nops = 0
    /\ boot = Live
    /\ pending = NoPending

\* a call is made: one more of the MaxOps calls of a run
Tick ==
    /\ nops < MaxOps
    /\ nops' = nops + 1

----------------------------------------------------------------------------
(* One action per Persist operation, the whole call in one step *)

CallAddMessage(chat_id, msg, get_fails, put_fails) ==
    /\ Tick
    /\ \E r \in add_message(messages, chat_id, msg, get_fails, put_fails) :
         /\ messages' = r.tree
         /\ ret' = Call("add_message", chat_id, msg, r, Before(messages, chat_id, Log(messages, chat_id)), get_fails, put_fails)
         /\ hist' = IF r.outcome = "Ok"
                    THEN [hist EXCEPT ![chat_id].log = Append(@, msg)]
                    ELSE hist
    /\ UNCHANGED <<users, inflight, last, boot, pending>>

CallAddUser(chat_id, user, get_fails, put_fails) ==
    /\ Tick
    /\ \E r \in add_user(users, chat_id, user, get_fails, put_fails) :
         /\ users' = r.tree
         /\ ret' = Call("add_user", chat_id, user, r, Before(users, chat_id, Roster(users, chat_id)), get_fails, put_fails)
    /\ UNCHANGED <<messages, hist, inflight, last, boot, pending>>

CallRemoveUser(chat_id, user_to_remove, get_fails, put_fails) ==
    /\ Tick
    /\ \E r \in remove_user(users, chat_id, user_to_remove, get_fails, put_fails) :
         /\ users' = r.tree
         /\ ret' = Call("remove_user", chat_id, user_to_remove, r, Before(users, chat_id, Roster(users, chat_id)), get_fails, put_fails)
    /\ UNCHANGED <<messages, hist, inflight, last, boot, pending>>

CallClearUsers(chat_id, put_fails) ==
    /\ Tick
    /\ \E r \in clear_users(users, chat_id, put_fails) :
         /\ users' = r.tree
         /\ ret' = Call("clear_users", chat_id, <<>>, r, Before(users, chat_id, Roster(users, chat_id)), FALSE, put_fails)
    /\ UNCHANGED <<messages, hist, inflight, last, boot, pending>>

CallClearMessages(chat_id, put_fails) ==
    /\ Tick
    /\ \E r \in clear_messages(messages, chat_id, put_fails) :
         /\ messages' = r.tree
         /\ ret' = Call("clear_messages", chat_id, <<>>, r, Before(messages, chat_id, Log(messages, chat_id)), FALSE, put_fails)
         /\ hist' = IF r.outcome = "Ok"
                    THEN [hist EXCEPT ![chat_id] =
                            [log |-> <<>>, gone |-> @.gone + Len(@.log)]]
                    ELSE hist
    /\ UNCHANGED <<users, inflight, last, boot, pending>>

CallGetUsers(chat_id, get_fails) ==
    /\ Tick
    /\ \E r \in get_users(users, chat_id, get_fails) :
         /\ users' = r.tree
         /\ ret' = Call("get_users", chat_id, <<>>, r, Before(users, chat_id, Roster(users, chat_id)), get_fails, FALSE)
    /\ UNCHANGED <<messages, hist, inflight, last, boot, pending>>

CallGetMessages(chat_id, get_fails) ==
    /\ Tick
    /\ \E r \in get_messages(messages, chat_id, get_fails) :
         /\ messages' = r.tree
         /\ ret' = Call("get_messages", chat_id, <<>>, r, Before(messages, chat_id, Log(messages, chat_id)), get_fails, FALSE)
    /\ UNCHANGED <<users, hist, inflight, last, boot, pending>>

AddMessage == \E c \in ChatIds, m \in ChatMessages : CallAddMessage(c, m, FALSE, FALSE)
AddUser == \E c \in ChatIds, u \in CodeUsers : CallAddUser(c, u, FALSE, FALSE)
RemoveUser == \E c \in ChatIds, id \in UserIds : CallRemoveUser(c, id, FALSE, FALSE)
ClearUsers == \E c \in ChatIds : CallClearUsers(c, FALSE)
ClearMessages == \E c \in ChatIds : CallClearMessages(c, FALSE)
GetUsers == \E c \in ChatIds : CallGetUsers(c, FALSE)
GetMessages == \E c \in ChatIds : CallGetMessages(c, FALSE)

Next ==
    \/ AddMessage
    \/ AddUser
    \/ RemoveUser
    \/ ClearUsers
    \/ ClearMessages
    \/ GetUsers
    \/ GetMessages

Spec == Init /\ [][Next]_vars

----------------------------------------------------------------------------
(* Claims about the Persist operations called one after the other (Spec) *)

RosterOps == {"add_user", "remove_user", "clear_users", "get_users"}
LogOps == {"add_message", "clear_messages", "get_messages"}

\* C2: with non-overlapping calls on a log that starts absent, list_messages returns
\* exactly the messages appended since the last clear_log, in append order; an append
\* on an unseen chat creates a one-entry log; equal sequence ids are all kept.
C2_ListReturnsAppendedSinceClear ==
    /\ \A c \in ChatIds :
         /\ Log(messages, c).outcome = "Ok"
         /\ Log(messages, c).v = hist[c].log
    /\ ret.op = "get_messages" =>
         /\ ret.outcome = "Ok"
         /\ ret.v = hist[ret.chat].log
    /\ (ret.op = "add_message" /\ ~ret.pre.had_key) =>
         /\ ret.outcome = "Ok"
         /\ Log(messages, ret.chat).v = <<ret.arg>>

\* a listing after a clear that dropped entries: only the later append is returned
C2_Witness ==
    /\ ret.op = "get_messages"
    /\ hist[ret.chat].gone > 0
    /\ Len(ret.v) = 1

\* the keys of a stored roster object are pairwise distinct
UniqueKeys(bytes) ==
    \A i, j \in DOMAIN Payload(bytes) :
        i # j => Payload(bytes)[i][1] # Payload(bytes)[j][1]

\* C3: a successful register_participant(c, p) makes list_participants(c) map
\* p.participant_id to exactly p, replaces a previous entry of that id as a whole
\* without changing the number of entries, and leaves every other entry alone;
\* a roster never holds two entries of one ParticipantId.
C3_RegisterUpserts ==
    /\ \A key \in DOMAIN users : UniqueKeys(users[key])
    /\ \A c \in ChatIds : \A k \in DOMAIN Roster(users, c).v :
         Roster(users, c).v[k].telegram_id = k
    /\ ret.op = "add_user" =>
         LET p == ret.arg
             id == ret.arg.telegram_id
             before == ret.pre.v
             after == Roster(users, ret.chat).v
         IN /\ ret.outcome = "Ok"
            /\ id \in DOMAIN after
            /\ after[id] = p
            /\ DOMAIN after = DOMAIN before \cup {id}
            /\ id \in DOMAIN before => Cardinality(DOMAIN after) = Cardinality(DOMAIN before)
            /\ \A k \in DOMAIN before \ {id} : after[k] = before[k]

\* a registration that replaces a different record of the same id, next to another entry
C3_Witness ==
    /\ ret.op = "add_user"
    /\ ret.outcome = "Ok"
    /\ ret.arg.telegram_id \in DOMAIN ret.pre.v
    /\ ret.pre.v[ret.arg.telegram_id] # ret.arg
    /\ Cardinality(DOMAIN ret.pre.v) = 2

\* C4: after remove_participant(c, id) the roster has no entry for id and every other
\* entry is unchanged; removing an id that is not there (also on a chat never
\* written) succeeds and leaves the listed roster as it was.
C4_RemoveDeletesIfPresent ==
    ret.op = "remove_user" =>
        LET id == ret.arg
            before == ret.pre.v
            after == Roster(users, ret.chat).v
        IN /\ ret.outcome = "Ok"
           /\ Roster(users, ret.chat).outcome = "Ok"
           /\ id \notin DOMAIN after
           /\ DOMAIN after = DOMAIN before \ {id}
           /\ \A k \in DOMAIN after : after[k] = before[k]
           /\ id \notin DOMAIN before => after = before

\* a removal of an entry that was there, next to another entry that stays
C4_Witness ==
    /\ ret.op = "remove_user"
    /\ ret.outcome = "Ok"
    /\ ret.arg \in DOMAIN ret.pre.v
    /\ Cardinality(DOMAIN ret.pre.v) = 2

\* a removal on a chat whose roster was never written
C4_WitnessUnseen ==
    /\ ret.op = "remove_user"
    /\ ret.outcome = "Ok"
    /\ ~ret.pre.had_key

\* a list call on a chat never written returns the empty collection
ListOfUnseenIsEmpty ==
    /\ (ret.op = "get_users" /\ ~ret.pre.had_key) =>
         (ret.outcome = "Ok" /\ DOMAIN ret.v = {})
    /\ (ret.op = "get_messages" /\ ~ret.pre.had_key) =>
         (ret.outcome = "Ok" /\ Len(ret.v) = 0)

\* a list call performs no put: no key is created, no stored value changes
ListStepReadsOnly ==
    (nops' # nops /\ ret'.op \in {"get_users", "get_messages"}) =>
        (users' = users /\ messages' = messages)

\* C6: list_participants / list_messages on a chat never written return the empty
\* collection, and both are read-only (they create no key and change no value).
C6_ListIsReadOnly == []ListOfUnseenIsEmpty /\ [][ListStepReadsOnly]_vars

\* both list calls made on a chat that has no key, which still has none
C6_Witness ==
    /\ ret.op = "get_users"
    /\ ~ret.pre.had_key
    /\ to_vec_ChatId(ret.chat) \notin DOMAIN users
    /\ DOMAIN users # {}

\* the entry of a chat is the same in two trees
SameEntry(t1, t2, chat_id) ==
    LET key == to_vec_ChatId(chat_id)
    IN /\ (key \in DOMAIN t1) <=> (key \in DOMAIN t2)
       /\ key \in DOMAIN t1 => t1[key] = t2[key]

FrameStep ==
    nops' # nops =>
        /\ \A d \in ChatIds \ {ret'.chat} :
             /\ SameEntry(users, users', d)
             /\ SameEntry(messages, messages', d)
        /\ ret'.op \in RosterOps => messages' = messages
        /\ ret'.op \in LogOps => users' = users

\* C7: a call on chat c changes neither the roster nor the log of any other chat;
\* roster operations leave the log of c alone and log operations its roster.
C7_OtherChatsAndOtherStoreUnchanged == [][FrameStep]_vars

\* a registration in a chat that has a log, while another chat has a roster
C7_Witness ==
    /\ ret.op = "add_user"
    /\ ret.outcome = "Ok"
    /\ Len(Log(messages, ret.chat).v) > 0
    /\ \E d \in ChatIds \ {ret.chat} : DOMAIN Roster(users, d).v # {}

----------------------------------------------------------------------------
(* The store with faults (SpecFault): the trees opened at startup may hold bytes  *)
(* that do not decode as the expected collection, and a get or an insert of sled  *)
(* may fail with an I/O error.                                                    *)

\* stored bytes that are no serialized roster and no serialized log
Corrupt == JStr("corrupt")

CorruptTrees ==
    UNION { [ks -> {Corrupt}] : ks \in SUBSET { to_vec_ChatId(c) : c \in ChatIds } }

InitFault ==
    /\ users \in CorruptTrees
    /\ messages \in CorruptTrees
    /\ ret = NoCall
    /\ hist = NoHist
    /\ inflight = [t \in Threads |-> Idle]
    /\ last = NoUpdate
    /\ nops = 0
    /\ boot = Live
    /\ pending = NoPending

\* the store fails the get, or it fails the insert
IoFailures == {<<TRUE, FALSE>>, <<FALSE, TRUE>>}

AddMessageIo ==
    \E c \in ChatIds, m \in ChatMessages, io \in IoFailures : CallAddMessage(c, m, io[1], io[2])
AddUserIo ==
    \E c \in ChatIds, u \in CodeUsers, io \in IoFailures : CallAddUser(c, u, io[1], io[2])
RemoveUserIo ==
    \E c \in ChatIds, id \in UserIds, io \in IoFailures : CallRemoveUser(c, id, io[1], io[2])
ClearUsersIo == \E c \in ChatIds : CallClearUsers(c, TRUE)
ClearMessagesIo == \E c \in ChatIds : CallClearMessages(c, TRUE)
GetUsersIo == \E c \in ChatIds : CallGetUsers(c, TRUE)
GetMessagesIo == \E c \in ChatIds : CallGetMessages(c, TRUE)

\* a run with faults makes at most MaxFaultOps calls
FaultBudget == nops < MaxFaultOps

NextFault ==
    \/ FaultBudget /\ AddMessage
    \/ FaultBudget /\ AddUser
    \/ FaultBudget /\ RemoveUser
    \/ FaultBudget /\ ClearUsers
    \/ FaultBudget /\ ClearMessages
    \/ FaultBudget /\ GetUsers
    \/ FaultBudget /\ GetMessages
    \/ FaultBudget /\ AddMessageIo
    \/ FaultBudget /\ AddUserIo
    \/ FaultBudget /\ RemoveUserIo
    \/ FaultBudget /\ ClearUsersIo
    \/ FaultBudget /\ ClearMessagesIo
    \/ FaultBudget /\ GetUsersIo
    \/ FaultBudget /\ GetMessagesIo

SpecFault == InitFault /\ [][NextFault]_vars

----------------------------------------------------------------------------
(* Claims about the store with faults (SpecFault) *)

ClearedIsEmpty ==
    /\ (ret.op = "clear_users" /\ ret.outcome = "Ok") =>
         LET key == to_vec_ChatId(ret.chat)
         IN /\ key \in DOMAIN users
            /\ users[key] \in to_vec_users(EmptyMap)
            /\ Roster(users, ret.chat).outcome = "Ok"
            /\ DOMAIN Roster(users, ret.chat).v = {}
    /\ (ret.op = "clear_messages" /\ ret.outcome = "Ok") =>
         LET key == to_vec_ChatId(ret.chat)
         IN /\ key \in DOMAIN messages
            /\ messages[key] = to_vec_messages(<<>>)
            /\ Log(messages, ret.chat).outcome = "Ok"
            /\ Len(Log(messages, ret.chat).v) = 0

KeysStay ==
    /\ DOMAIN users \subseteq DOMAIN users'
    /\ DOMAIN messages \subseteq DOMAIN messages'

\* C5: after a successful clear_roster(c) / clear_log(c), whatever c held before, the
\* key of c is present and holds the serialized empty collection, and the list call
\* returns the empty collection; no operation ever deletes a key.
C5_ClearKeepsKeyWithEmptyCollection == []ClearedIsEmpty /\ [][KeysStay]_vars

\* a roster cleared while its stored bytes did not decode
C5_Witness ==
    /\ ret.op = "clear_users"
    /\ ret.outcome = "Ok"
    /\ ret.pre.had_key
    /\ ret.pre.outcome = "Err"

\* a log cleared after an append
C5_WitnessLog ==
    /\ ret.op = "clear_messages"
    /\ ret.outcome = "Ok"
    /\ hist[ret.chat].gone > 0

\* C8: when the store fails a get or a put, each of the seven operations returns a
\* recoverable error value; none aborts.
C8_StoreFailureIsRecoverable ==
    (ret.io.get_fails \/ ret.io.put_fails) => ret.outcome = "Err"

\* the calls whose store failure ends in a panic, and those where it is returned
C8_PanicsOnStoreFailure ==
    (ret.io.get_fails \/ ret.io.put_fails) =>
        IF ret.op \in {"clear_users", "clear_messages"}
        THEN ret.outcome = "Err"
        ELSE ret.outcome \in {"panic", "Err"}

\* the bytes stored under the chat of a call, in the tree the call works on, are Corrupt
StoredCorrupt(tree, chat_id) ==
    /\ to_vec_ChatId(chat_id) \in DOMAIN tree
    /\ tree[to_vec_ChatId(chat_id)] = Corrupt

DecodeFailureStep ==
    /\ (/\ nops' # nops
        /\ ret'.op \in {"add_user", "remove_user", "get_users"}
        /\ ~ret'.io.get_fails
        /\ StoredCorrupt(users, ret'.chat))
       => (ret'.outcome = "Err" /\ users' = users /\ messages' = messages)
    /\ (/\ nops' # nops
        /\ ret'.op \in {"add_message", "get_messages"}
        /\ ~ret'.io.get_fails
        /\ StoredCorrupt(messages, ret'.chat))
       => (ret'.outcome = "Err" /\ users' = users /\ messages' = messages)

\* C9: when the bytes stored under chat c do not decode, register_participant,
\* remove_participant and append_message return an error and perform no put, and
\* the two list operations return an error, not an empty or partial collection.
C9_DecodeFailureIsReportedWithoutPut == [][DecodeFailureStep]_vars

\* a second append on a log whose bytes do not decode: still an error, bytes still there
C9_Witness ==
    /\ ret.op = "add_message"
    /\ ret.outcome = "Err"
    /\ ~ret.io.get_fails
    /\ StoredCorrupt(messages, ret.chat)
    /\ nops = 2

----------------------------------------------------------------------------
(* Two threads calling add_message (SpecRace): the get and the insert of a call  *)
(* are two steps, and the other thread may run between them.                     *)

EmptyLogTrees ==
    UNION { [ks -> {to_vec_messages(<<>>)}] : ks \in SUBSET { to_vec_ChatId(c) : c \in ChatIds } }

InitRace ==
    /\ users = EmptyTree
    /\ messages \in EmptyLogTrees
    /\ ret = NoCall
    /\ hist = NoHist
    /\ inflight = [t \in Threads |-> Idle]
    /\ last = NoUpdate
    /\ nops = 0
    /\ boot = Live
    /\ pending = NoPending

\* db.rs:53-61: get, decode, push
AddMessageGet(t, chat_id, msg) ==
    /\ ~inflight[t].busy
    /\ nops < MaxRaceCalls
    /\ nops' = nops + 1
    /\ LET loaded == add_message_load(messages, chat_id, msg, FALSE)
       IN IF loaded.outcome = "Ok"
          THEN /\ inflight' = [inflight EXCEPT ![t] =
                     [@ EXCEPT !.busy = TRUE, !.chat = chat_id, !.msg = msg, !.vec = loaded.v]]
               /\ UNCHANGED ret
          ELSE /\ ret' = Call("add_message", chat_id, msg, loaded,
                              Before(messages, chat_id, Log(messages, chat_id)), FALSE, FALSE)
               /\ UNCHANGED inflight
    /\ UNCHANGED <<users, messages, hist, last, boot, pending>>

\* db.rs:62-69: insert the whole vector, return Ok
AddMessagePut(t) ==
    /\ inflight[t].busy
    /\ LET r == add_message_store(messages, inflight[t].chat, inflight[t].vec, FALSE)
       IN /\ messages' = r.tree
          /\ ret' = Call("add_message", inflight[t].chat, inflight[t].msg, r,
                         Before(messages, inflight[t].chat, Log(messages, inflight[t].chat)),
                         FALSE, FALSE)
    /\ inflight' = [inflight EXCEPT ![t] =
          [busy |-> FALSE, chat |-> 0, msg |-> <<>>, vec |-> <<>>,
           done |-> Append(@.done, [chat |-> @.chat, msg |-> @.msg])]]
    /\ UNCHANGED <<users, hist, last, nops, boot, pending>>

NextRace ==
    \/ \E t \in Threads, c \in ChatIds, m \in ChatMessages : AddMessageGet(t, c, m)
    \/ \E t \in Threads : AddMessagePut(t)

SpecRace == InitRace /\ [][NextRace]_vars

\* thread t has made exactly one call, add_message(chat_id, msg), and it has returned
MadeOnly(t, chat_id, msg) ==
    /\ ~inflight[t].busy
    /\ inflight[t].done = <<[chat |-> chat_id, msg |-> msg]>>

\* C1: two add_message calls on the same chat, run by two threads from an empty or
\* absent log, leave [m1], [m2], [m1,m2] or [m2,m1] and nothing else.
C1_RaceOutcomes ==
    \A c \in ChatIds, m1, m2 \in ChatMessages :
        (MadeOnly(1, c, m1) /\ MadeOnly(2, c, m2)) =>
            /\ Log(messages, c).outcome = "Ok"
            /\ Log(messages, c).v \in {<<m1>>, <<m2>>, <<m1, m2>>, <<m2, m1>>}

\* the lost update: both calls returned, only the message of thread 1 is in the log
C1_Witness ==
    \E c \in ChatIds, m1, m2 \in ChatMessages :
        /\ m1 # m2
        /\ MadeOnly(1, c, m1) /\ MadeOnly(2, c, m2)
        /\ Log(messages, c).v = <<m1>>

C1_WitnessLostFirst ==
    \E c \in ChatIds, m1, m2 \in ChatMessages :
        /\ m1 # m2
        /\ MadeOnly(1, c, m1) /\ MadeOnly(2, c, m2)
        /\ Log(messages, c).v = <<m2>>

C1_WitnessBoth ==
    \E c \in ChatIds, m1, m2 \in ChatMessages :
        /\ m1 # m2
        /\ MadeOnly(1, c, m1) /\ MadeOnly(2, c, m2)
        /\ Log(messages, c).v = <<m1, m2>>

C1_WitnessBothReversed ==
    \E c \in ChatIds, m1, m2 \in ChatMessages :
        /\ m1 # m2
        /\ MadeOnly(1, c, m1) /\ MadeOnly(2, c, m2)
        /\ Log(messages, c).v = <<m2, m1>>

----------------------------------------------------------------------------
(* message_parse.rs *)

Digits == {"0", "1", "2", "3", "4", "5", "6", "7", "8", "9"}
Whitespace == {" ", "\t", "\n"}

Min(S) == CHOOSE x \in S : \A y \in S : x <= y
Max(S) == CHOOSE x \in S : \A y \in S : x >= y

\* the literal lit stands in msg at position k
LiteralAt(msg, k, lit) ==
    /\ k + Len(lit) - 1 <= Len(msg)
    /\ \A i \in 1..Len(lit) : msg[k + i - 1] = lit[i]

\* r"https://pastebin.com/" inside IS_SOLUTION_REGEX matches at position k: the dot
\* is not escaped there, it matches any character but a line break
SolutionLinkAt(msg, k) ==
    /\ k + Len(LinkText) - 1 <= Len(msg)
    /\ \A i \in 1..Len(LinkText) :
         IF LinkText[i] = "." THEN msg[k + i - 1] # "\n" ELSE msg[k + i - 1] = LinkText[i]

\* IS_SOLUTION_REGEX.is_match(msg), r"^\d\D*https://pastebin.com/"
is_codewars_solution(msg) ==
    /\ Len(msg) >= 1
    /\ msg[1] \in Digits
    /\ \E k \in 2..Len(msg) :
         /\ \A j \in 2..(k - 1) : msg[j] \notin Digits
         /\ SolutionLinkAt(msg, k)

\* length of the match of KATA_KYU, r"^\d(?:\s*kyu|\s)", 0 when there is none
kata_kyu_len(msg) ==
    IF Len(msg) = 0 \/ msg[1] \notin Digits THEN 0
    ELSE LET kyu == { j \in 0..(Len(msg) - 1) :
                        /\ \A i \in 2..(1 + j) : msg[i] \in Whitespace
                        /\ LiteralAt(msg, 2 + j, <<"k", "y", "u">>) }
         IN IF kyu # {} THEN 1 + Max(kyu) + 3
            ELSE IF Len(msg) >= 2 /\ msg[2] \in Whitespace THEN 2
            ELSE 0

\* KATA_KYU.replace(msg, "")
replace_kata_kyu(msg) == SubSeq(msg, kata_kyu_len(msg) + 1, Len(msg))

\* LINK.replace(s, ""), r"https://pastebin\.com/(.|\s)*": from the first link to the end
replace_link(s) ==
    LET at == { k \in 1..Len(s) : LiteralAt(s, k, LinkText) }
    IN IF at = {} THEN s ELSE SubSeq(s, 1, Min(at) - 1)

\* a trim of the leading whitespace only
trim_start(s) ==
    LET keep == { i \in 1..Len(s) : s[i] \notin Whitespace }
    IN IF keep = {} THEN <<>> ELSE SubSeq(s, Min(keep), Len(s))

\* str::trim
trim(s) ==
    LET keep == { i \in 1..Len(s) : s[i] \notin Whitespace }
    IN IF keep = {} THEN <<>> ELSE SubSeq(s, Min(keep), Max(keep))

\* an extraction that does not look at the classification first
kata_name_unchecked(msg) == Ok(trim(replace_link(replace_kata_kyu(msg))))

\* kata_name(msg): panics unless msg is a solution, else the three replacements
kata_name(msg) ==
    IF ~is_codewars_solution(msg) THEN Panic
    ELSE Ok(trim(replace_link(replace_kata_kyu(msg))))

----------------------------------------------------------------------------
(* main.rs: the handlers of the bot *)

\* the characters of the texts, in the order of their codes
CharOrder ==
    <<"\t", "\n", " ", ".", "/", "0", "1", "2", "3", "4", "5", "6", "7", "8", "9", ":",
      "B", "F", "_", "a", "b", "c", "e", "h", "i", "k", "m", "n", "o", "p", "r", "s",
      "t", "u", "y">>

CharCode(ch) == CHOOSE i \in DOMAIN CharOrder : CharOrder[i] = ch

\* String's Ord: a < b
StrLess(a, b) ==
    \E k \in 1..(Len(a) + 1) :
        /\ \A i \in 1..(k - 1) : i <= Len(b) /\ a[i] = b[i]
        /\ k <= Len(b)
        /\ k <= Len(a) => CharCode(a[k]) < CharCode(b[k])

\* every element kept, repeated or not
unique_keep_all(seq) == seq

\* Itertools::unique: the first occurrence of every element, in order
unique(seq) ==
    LET first == { i \in DOMAIN seq : \A j \in 1..(i - 1) : seq[j] # seq[i] }
        nth(n) == CHOOSE i \in first : Cardinality({ j \in first : j < i }) = n - 1
    IN [n \in 1..Cardinality(first) |-> seq[nth(n)]]

\* Itertools::sorted: a stable sort
RECURSIVE sorted(_)
sorted(seq) ==
    IF seq = <<>> THEN <<>>
    ELSE LET rest == sorted(Tail(seq))
             n == Cardinality({ i \in DOMAIN rest : StrLess(rest[i], Head(seq)) })
         IN SubSeq(rest, 1, n) \o <<Head(seq)>> \o SubSeq(rest, n + 1, Len(rest))

\* teloxide User: id, username, first_name
TgUsers ==
    { [id |-> 1, username |-> None, first_name |-> "Ann"],
      [id |-> 2, username |-> Some("bob"), first_name |-> "Bob"] }

\* cx.update.from(): a user, or none
Senders == { Some(u) : u \in TgUsers } \cup {None}

TextHello == <<"h", "i">>
BotTexts == {TextFoo, TextBar, TextHello}
MsgIds == {1, 2}

\* the arguments Command::parse hands to answer_command
ArgLists == {<<>>, <<"cw_a">>, <<"cw_a", "cw_b">>}

\* no store failure, or one of IoFailures
IoChoices == {<<FALSE, FALSE>>} \cup IoFailures

\* stats::compute_stats(us, msg): a path to an image, or an error
compute_stats(us, msg) == {"Ok", "Err"}

\* what a handler did: the trees after it, the results of its Persist calls, the
\* reply it sent, and whether it panicked
Handled(us, ms, core, reply, panicked) ==
    [users |-> us, messages |-> ms, core |-> core, reply |-> reply, panicked |-> panicked]

\* a storing that does not classify the text
store_message_any(us, ms, chat_id, from, text, id, io) ==
    IF ~from.some THEN {Handled(us, ms, <<>>, NoReply, FALSE)}
    ELSE { IF r.outcome = "panic"
           THEN Handled(us, r.tree, <<r.outcome>>, NoReply, TRUE)
           ELSE Handled(us, r.tree, <<r.outcome>>, Reply("Registered!", <<>>), FALSE) :
             r \in add_message(ms, chat_id,
                               [id |-> id, text |-> text, from |-> from.v.id], io[1], io[2]) }

store_message(us, ms, chat_id, from, text, id, io) ==
    IF ~from.some THEN {Handled(us, ms, <<>>, NoReply, FALSE)}
    ELSE IF is_codewars_solution(text)
    THEN { IF r.outcome = "panic"
           THEN Handled(us, r.tree, <<r.outcome>>, NoReply, TRUE)
           ELSE Handled(us, r.tree, <<r.outcome>>, Reply("Registered!", <<>>), FALSE) :
             r \in add_message(ms, chat_id,
                               [id |-> id, text |-> text, from |-> from.v.id], io[1], io[2]) }
    ELSE {Handled(us, ms, <<>>, NoReply, FALSE)}

\* the reply after one Persist call: none when it panicked
AfterCall(us, ms, r, ok_text, err_text) ==
    IF r.outcome = "panic" THEN Handled(us, ms, <<r.outcome>>, NoReply, TRUE)
    ELSE Handled(us, ms, <<r.outcome>>,
                 Reply(IF r.outcome = "Ok" THEN ok_text ELSE err_text, <<>>), FALSE)

\* a DeleteMe that empties the roster of the chat
command_DeleteMe_all(us, ms, chat_id, from, io) ==
    { AfterCall(r.tree, ms, r, "Removed user successfully",
                "Couldn't remove user due to a serialization error") :
        r \in clear_users(us, chat_id, io[2]) }

command_DeleteMe(us, ms, chat_id, from, io) ==
    { AfterCall(r.tree, ms, r, "Removed user successfully",
                "Couldn't remove user due to a serialization error") :
        r \in remove_user(us, chat_id, from.v.id, io[1], io[2]) }

\* an AddMe that takes the first of any number of arguments
command_AddMe_first_arg(us, ms, chat_id, from, args, io) ==
    IF Len(args) >= 1
    THEN { AfterCall(r.tree, ms, r, "Added user with codewars username",
                     "Couldn't add user with codewars username because of a serialization failure") :
             r \in add_user(us, chat_id,
                            [telegram_id |-> from.v.id, codewars_name |-> args[1],
                             username |-> from.v.username, firstname |-> from.v.first_name],
                            io[1], io[2]) }
    ELSE {Handled(us, ms, <<>>,
                  Reply("Couldn't add user because codewars username wasn't supplied", <<>>), FALSE)}

command_AddMe(us, ms, chat_id, from, args, io) ==
    IF Len(args) = 1
    THEN { AfterCall(r.tree, ms, r, "Added user with codewars username",
                     "Couldn't add user with codewars username because of a serialization failure") :
             r \in add_user(us, chat_id,
                            [telegram_id |-> from.v.id, codewars_name |-> args[1],
                             username |-> from.v.username, firstname |-> from.v.first_name],
                            io[1], io[2]) }
    ELSE {Handled(us, ms, <<>>,
                  Reply("Couldn't add user because codewars username wasn't supplied", <<>>), FALSE)}

command_ShowStats(us, ms, chat_id, io) ==
    UNION { IF u.outcome = "panic" THEN {Handled(us, ms, <<u.outcome>>, NoReply, TRUE)}
            ELSE IF u.outcome = "Err"
            THEN {Handled(us, ms, <<u.outcome>>,
                          Reply("Couldn't get user data due to an internal error", <<>>), FALSE)}
            ELSE UNION { IF m.outcome = "panic"
                         THEN {Handled(us, ms, <<u.outcome, m.outcome>>, NoReply, TRUE)}
                         ELSE IF m.outcome = "Err"
                         THEN {Handled(us, ms, <<u.outcome, m.outcome>>,
                                       Reply("Internal error 1", <<>>), FALSE)}
                         ELSE { Handled(us, ms, <<u.outcome, m.outcome>>,
                                        Reply(IF path = "Ok" THEN "photo" ELSE "Internal error 2",
                                              <<>>), FALSE) :
                                  path \in compute_stats(u.v, m.v) } :
                           m \in get_messages(ms, chat_id, io[1]) } :
              u \in get_users(us, chat_id, io[1]) }

\* a Clear that empties the log of the chat as well
command_Clear_all(us, ms, chat_id, io) ==
    { AfterCall(r.tree, m.tree, r, "Cleared all users for this chat",
                "Couldn't clear users due to a serialization failure") :
        r \in clear_users(us, chat_id, io[2]), m \in clear_messages(ms, chat_id, io[2]) }

command_Clear(us, ms, chat_id, io) ==
    { AfterCall(r.tree, ms, r, "Cleared all users for this chat",
                "Couldn't clear users due to a serialization failure") :
        r \in clear_users(us, chat_id, io[2]) }

command_ShowSolved(us, ms, chat_id, io) ==
    { IF r.outcome = "panic" THEN Handled(us, ms, <<r.outcome>>, NoReply, TRUE)
      ELSE LET msgs == IF r.outcome = "Ok" THEN r.v ELSE <<>>
               names == [i \in DOMAIN msgs |-> kata_name(msgs[i].text)]
           IN IF Len(msgs) = 0
              THEN Handled(us, ms, <<r.outcome>>, Reply("No solved katas", <<>>), FALSE)
              ELSE IF \E i \in DOMAIN names : names[i].outcome = "panic"
              THEN Handled(us, ms, <<r.outcome>>, NoReply, TRUE)
              ELSE Handled(us, ms, <<r.outcome>>,
                           Reply("The following katas were solved:",
                                 sorted(unique([i \in DOMAIN names |-> names[i].v]))),
                           FALSE) :
        r \in get_messages(ms, chat_id, io[1]) }

answer_command(us, ms, chat_id, from, command, args, io) ==
    IF ~from.some THEN {Handled(us, ms, <<>>, NoReply, FALSE)}
    ELSE CASE command = "Help" ->
                {Handled(us, ms, <<>>, Reply("These commands are supported:", <<>>), FALSE)}
           [] command = "DeleteMe" -> command_DeleteMe(us, ms, chat_id, from, io)
           [] command = "AddMe" -> command_AddMe(us, ms, chat_id, from, args, io)
           [] command = "ShowStats" -> command_ShowStats(us, ms, chat_id, io)
           [] command = "Clear" -> command_Clear(us, ms, chat_id, io)
           [] command = "ShowSolved" -> command_ShowSolved(us, ms, chat_id, io)

\* the stores as main opens them: a chat's key may be absent or hold undecodable bytes
InitBot ==
    /\ users \in CorruptTrees
    /\ messages \in CorruptTrees
    /\ ret = NoCall
    /\ hist = NoHist
    /\ inflight = [t \in Threads |-> Idle]
    /\ last = NoUpdate
    /\ nops = 0
    /\ boot = Live
    /\ pending = NoPending

\* a dispatcher that takes updates from the start of main
dispatching_early == TRUE

\* main has reached Dispatcher::dispatch: the import before it is complete
dispatching == boot.phase = "live"

\* one update handled by handle_messages; a panic ends the dispatch loop
Handle(handler, chat_id, from, arg, results) ==
    /\ dispatching
    /\ ~last.panicked
    /\ nops < MaxBotOps
    /\ nops' = nops + 1
    /\ \E h \in results :
         /\ users' = h.users
         /\ messages' = h.messages
         /\ last' = [handler |-> handler, chat |-> chat_id, from |-> from, arg |-> arg,
                     core |-> h.core, reply |-> h.reply, panicked |-> h.panicked]
    /\ UNCHANGED <<ret, hist, inflight, boot, pending>>

StoreMessage ==
    \E c \in ChatIds, from \in Senders, text \in BotTexts, id \in MsgIds, io \in IoChoices :
        Handle("store_message", c, from, <<id, text>>,
               store_message(users, messages, c, from, text, id, io))

AnswerHelp ==
    \E c \in ChatIds, from \in Senders :
        Handle("Help", c, from, <<>>,
               answer_command(users, messages, c, from, "Help", <<>>, <<FALSE, FALSE>>))

AnswerDeleteMe ==
    \E c \in ChatIds, from \in Senders, io \in IoChoices :
        Handle("DeleteMe", c, from, <<>>,
               answer_command(users, messages, c, from, "DeleteMe", <<>>, io))

AnswerAddMe ==
    \E c \in ChatIds, from \in Senders, args \in ArgLists, io \in IoChoices :
        Handle("AddMe", c, from, args,
               answer_command(users, messages, c, from, "AddMe", args, io))

AnswerShowStats ==
    \E c \in ChatIds, from \in Senders, io \in IoChoices :
        Handle("ShowStats", c, from, <<>>,
               answer_command(users, messages, c, from, "ShowStats", <<>>, io))

AnswerClear ==
    \E c \in ChatIds, from \in Senders, io \in IoChoices :
        Handle("Clear", c, from, <<>>,
               answer_command(users, messages, c, from, "Clear", <<>>, io))

AnswerShowSolved ==
    \E c \in ChatIds, from \in Senders, io \in IoChoices :
        Handle("ShowSolved", c, from, <<>>,
               answer_command(users, messages, c, from, "ShowSolved", <<>>, io))

NextBot ==
    \/ StoreMessage
    \/ AnswerHelp
    \/ AnswerDeleteMe
    \/ AnswerAddMe
    \/ AnswerShowStats
    \/ AnswerClear
    \/ AnswerShowSolved

SpecBot == InitBot /\ [][NextBot]_vars

SuccessReplies ==
    {"Registered!", "Added user with codewars username", "Removed user successfully",
     "Cleared all users for this chat", "The following katas were solved:", "No solved katas"}

FailureReplies ==
    {"Couldn't remove user due to a serialization error",
     "Couldn't add user with codewars username because of a serialization failure",
     "Couldn't clear users due to a serialization failure",
     "Couldn't get user data due to an internal error",
     "Internal error 1", "Internal error 2"}

\* some Persist call of the update handled last returned Err
CoreFailed == \E i \in DOMAIN last.core : last.core[i] = "Err"

\* C10: when the Persist call behind a command or behind the storing of a message
\* returns an error, the reply reports a failure; a success-shaped reply is sent
\* only when the call succeeded.
C10_ErrorsAreReported ==
    /\ CoreFailed => last.reply.text \in FailureReplies
    /\ last.reply.text \in SuccessReplies => ~CoreFailed

\* what the code does: AddMe, DeleteMe, Clear and ShowStats report the error, the
\* storing of a message and ShowSolved answer as if the call had succeeded
C10_RepliesOfTheCode ==
    CoreFailed =>
        CASE last.handler = "store_message" -> last.reply.text = "Registered!"
          [] last.handler = "ShowSolved" -> last.reply.text = "No solved katas"
          [] OTHER -> last.reply.text \in FailureReplies

----------------------------------------------------------------------------
(* message_parse.rs and the listing of ShowSolved as functions of their input *)

MaxPieces == 4
MaxSnapshot == 3

\* the link with another character where the link has its dot
LinkLookalike == [i \in DOMAIN LinkText |-> IF LinkText[i] = "." THEN "_" ELSE LinkText[i]]

Pieces == {<<"4">>, <<" ">>, <<"\n">>, <<"k", "y", "u">>, <<"F">>, LinkText, LinkLookalike}

RECURSIVE Concat(_)
Concat(ps) == IF ps = <<>> THEN <<>> ELSE Head(ps) \o Concat(Tail(ps))

TextSum ==
    <<"4", " ", "k", "y", "u", " ", "S", "u", "m", " ", "O", "f", " ", "T", "w", "o", " ", " ">>
        \o LinkText \o <<"x", "y", "z">>
TextLinkFirst == <<"4">> \o LinkText \o <<"x">>

\* the texts the functions are applied to: up to MaxPieces pieces, and fixed examples
Texts ==
    { Concat(ps) : ps \in UNION { [1..n -> Pieces] : n \in 0..MaxPieces } }
        \cup {TextFoo, TextBar, TextHello, TextSum, TextLinkFirst}

\* texts of a log whose names repeat and differ
TextFooPlain == <<"7", " ", "F", "o", "o", " ">> \o LinkText
SolvedTexts == {TextFoo, TextFooPlain, TextBar, TextLinkFirst}

\* the logs get_messages can return to ShowSolved
Snapshots ==
    UNION { [1..n -> { [id |-> 1, text |-> t, from |-> 1] : t \in SolvedTexts }] :
              n \in 0..MaxSnapshot }

\* either a text to classify and to extract from, or a log to list
InitParse ==
    /\ users = EmptyTree
    /\ hist = NoHist
    /\ inflight = [t \in Threads |-> Idle]
    /\ last = NoUpdate
    /\ nops = 0
    /\ boot = Live
    /\ pending = NoPending
    /\ \/ /\ messages = EmptyTree
          /\ \E text \in Texts : ret = [NoCall EXCEPT !.op = "input", !.arg = text]
       \/ /\ ret = NoCall
          /\ \E c \in ChatIds, log \in Snapshots :
               messages = sled_insert(EmptyTree, to_vec_ChatId(c), to_vec_messages(log))

Classify ==
    /\ ret.op = "input"
    /\ ret' = Call("is_codewars_solution", 0, ret.arg, Ok(is_codewars_solution(ret.arg)),
                   NoCall.pre, FALSE, FALSE)
    /\ UNCHANGED <<users, messages, hist, inflight, last, nops, boot, pending>>

Extract ==
    /\ ret.op = "input"
    /\ ret' = Call("kata_name", 0, ret.arg, kata_name(ret.arg), NoCall.pre, FALSE, FALSE)
    /\ UNCHANGED <<users, messages, hist, inflight, last, nops, boot, pending>>

ListSolved ==
    /\ ret.op = "none"
    /\ last.handler = "none"
    /\ \E c \in ChatIds, from \in Senders :
         Handle("ShowSolved", c, from, <<>>,
                answer_command(users, messages, c, from, "ShowSolved", <<>>, <<FALSE, FALSE>>))

NextParse ==
    \/ Classify
    \/ Extract
    \/ ListSolved

SpecParse == InitParse /\ [][NextParse]_vars

\* C12: kata_name ends in a panic, not in an Err, on every text that is not a
\* solution, and returns a name on every text that is one.
C12_ExtractPanicsUnlessSolution ==
    ret.op = "kata_name" =>
        IF is_codewars_solution(ret.arg) THEN ret.outcome = "Ok" ELSE ret.outcome = "panic"

C12_Witness == ret.op = "kata_name" /\ ret.arg = <<"F">> \o LinkText /\ ret.outcome = "panic"

C12_WitnessName == ret.op = "kata_name" /\ ret.arg = TextFoo /\ ret.outcome = "Ok"

\* the exact link stands somewhere after the first character of text
HasLinkAfterFirst(text) == \E k \in 2..Len(text) : LiteralAt(text, k, LinkText)

\* C13: a text classified as a solution contains the exact literal
\* https://pastebin.com/ after its first character; a text whose marker differs
\* from it in any character is not a solution.
C13_SolutionHasExactLink ==
    ret.op = "is_codewars_solution" => (ret.v => HasLinkAfterFirst(ret.arg))

\* what the code does: the character where the link has its dot is free
C13_SolutionHasLinkPattern ==
    ret.op = "is_codewars_solution" =>
        (ret.v => \E k \in 2..Len(ret.arg) : SolutionLinkAt(ret.arg, k))

C13_LookalikeIsSolution ==
    /\ ret.op = "is_codewars_solution"
    /\ ret.arg = <<"4">> \o LinkLookalike
    /\ ret.v

\* the position of the first exact link of text, 0 when there is none
FirstLink(text) ==
    LET at == { k \in 1..Len(text) : LiteralAt(text, k, LinkText) }
    IN IF at = {} THEN 0 ELSE Min(at)

\* C14: is_codewars_solution is total; it is false for the empty text and for a
\* text whose first character is no digit, true for a digit followed by a text
\* without digits followed by the link and anything, and false for a text that
\* starts with a digit and has another digit before its first link.
C14_Classification ==
    ret.op = "is_codewars_solution" =>
        LET text == ret.arg
        IN /\ ret.outcome = "Ok" /\ ret.v \in BOOLEAN
           /\ text = <<>> => ~ret.v
           /\ (text # <<>> /\ text[1] \notin Digits) => ~ret.v
           /\ ( /\ text # <<>> /\ text[1] \in Digits
                /\ \E k \in 2..Len(text) :
                     /\ LiteralAt(text, k, LinkText)
                     /\ \A j \in 2..(k - 1) : text[j] \notin Digits ) => ret.v
           /\ ( /\ text # <<>> /\ text[1] \in Digits
                /\ \E j \in 2..(FirstLink(text) - 1) : text[j] \in Digits ) => ~ret.v

\* what the code does: the last case holds of the texts in which no lookalike of
\* the link stands before the digit
C14_ClassificationOfTheCode ==
    ret.op = "is_codewars_solution" =>
        LET text == ret.arg
        IN /\ ret.outcome = "Ok" /\ ret.v \in BOOLEAN
           /\ text = <<>> => ~ret.v
           /\ (text # <<>> /\ text[1] \notin Digits) => ~ret.v
           /\ ( /\ text # <<>> /\ text[1] \in Digits
                /\ \E k \in 2..Len(text) :
                     /\ LiteralAt(text, k, LinkText)
                     /\ \A j \in 2..(k - 1) : text[j] \notin Digits ) => ret.v
           /\ ( /\ text # <<>> /\ text[1] \in Digits
                /\ \E j \in 2..(FirstLink(text) - 1) :
                     /\ text[j] \in Digits
                     /\ \A k \in 2..j : ~SolutionLinkAt(text, k) ) => ~ret.v

C14_DigitAfterLookalike ==
    /\ ret.op = "is_codewars_solution"
    /\ ret.arg = <<"4">> \o LinkLookalike \o <<"4">> \o LinkText
    /\ ret.v

\* r is the length of the rank token at the start of text: a digit, then any
\* whitespace and kyu; or else a digit and one whitespace; or else nothing
IsRankToken(text, r) ==
    LET with_kyu(n) ==
            /\ n >= 4 /\ n <= Len(text)
            /\ text[1] \in Digits
            /\ \A i \in 2..(n - 3) : text[i] \in Whitespace
            /\ <<text[n - 2], text[n - 1], text[n]>> = <<"k", "y", "u">>
    IN \/ with_kyu(r)
       \/ /\ r = 2 /\ Len(text) >= 2 /\ text[1] \in Digits /\ text[2] \in Whitespace
          /\ \A n \in 1..Len(text) : ~with_kyu(n)
       \/ /\ r = 0
          /\ \A n \in 1..Len(text) : ~with_kyu(n)
          /\ ~(Len(text) >= 2 /\ text[1] \in Digits /\ text[2] \in Whitespace)

\* c characters of rest stand before its first link, all of them when it has none
IsCut(rest, c) ==
    IF FirstLink(rest) = 0 THEN c = Len(rest) ELSE c = FirstLink(rest) - 1

\* name is s without the whitespace at its two ends
IsTrimmed(s, name) ==
    \E i \in 1..(Len(s) + 1) :
        /\ \A k \in 1..(i - 1) : s[k] \in Whitespace
        /\ i <= Len(s) => s[i] \notin Whitespace
        /\ \E j \in (i - 1)..Len(s) :
             /\ \A k \in (j + 1)..Len(s) : s[k] \in Whitespace
             /\ j >= i => s[j] \notin Whitespace
             /\ name = SubSeq(s, i, j)

\* C15: on a solution, kata_name is the removal of the rank token at the start,
\* then the cut at the first link, then the trim of both ends; the name holds no
\* link and neither starts nor ends with whitespace; 4https://pastebin.com/x
\* gives 4.
C15_ExtractIsThreeSteps ==
    (ret.op = "kata_name" /\ ret.outcome = "Ok") =>
        /\ \E r \in 0..Len(ret.arg) :
             /\ IsRankToken(ret.arg, r)
             /\ LET rest == SubSeq(ret.arg, r + 1, Len(ret.arg))
                IN \E c \in 0..Len(rest) :
                       /\ IsCut(rest, c)
                       /\ IsTrimmed(SubSeq(rest, 1, c), ret.v)
        /\ FirstLink(ret.v) = 0
        /\ ret.v # <<>> => (ret.v[1] \notin Whitespace /\ ret.v[Len(ret.v)] \notin Whitespace)
        /\ ret.arg = TextLinkFirst => ret.v = <<"4">>

C15_Witness ==
    /\ ret.op = "kata_name"
    /\ ret.arg = TextSum
    /\ ret.v = <<"S", "u", "m", " ", "O", "f", " ", "T", "w", "o">>

C15_WitnessNoRank == ret.op = "kata_name" /\ ret.arg = TextLinkFirst /\ ret.v = <<"4">>

C15_WitnessLineBreak ==
    /\ ret.op = "kata_name"
    /\ ret.arg = <<"4", "\n">> \o LinkText \o <<"\n">>
    /\ ret.v = <<>>

\* C16: for a log that is not empty the listing of ShowSolved holds the names of
\* the entries, every name once, in ascending order: a name is listed exactly
\* when some entry of the log extracts to it.
C16_ListingIsSortedSetOfNames ==
    (last.handler = "ShowSolved" /\ last.from.some /\ Log(messages, last.chat).v # <<>>) =>
        LET log == Log(messages, last.chat).v
            lines == last.reply.lines
        IN /\ last.reply.text = "The following katas were solved:"
           /\ \A i \in 1..(Len(lines) - 1) : StrLess(lines[i], lines[i + 1])
           /\ { lines[i] : i \in DOMAIN lines }
                = { kata_name(log[i].text).v : i \in DOMAIN log }

C16_Witness ==
    /\ last.handler = "ShowSolved"
    /\ Len(Log(messages, last.chat).v) = 3
    /\ { Log(messages, last.chat).v[i].text : i \in 1..3 } = {TextFoo, TextFooPlain, TextBar}
    /\ last.reply.lines = << <<"B", "a", "r">>, <<"F", "o", "o">> >>

----------------------------------------------------------------------------
(* main.rs: the import of exported_messages.json, then the dispatcher with   *)
(* its handlers running concurrently on one task                             *)

MaxExport == 2
MaxLiveOps == 2

\* the entries of a chat of the export: msg_type, text, id, from_id; a text is
\* Text::String or Text::Links, whose runs are TextData::String or TextData::Typed
ExportFoo ==
    [msg_type |-> "message", text |-> Some(<<"String", TextFoo>>), id |-> 1, from_id |-> Some(1)]
ExportBarLinks ==
    [msg_type |-> "message",
     text |-> Some(<<"Links", << <<"String", <<"5", " ", "B", "a", "r", " ">> >>,
                                 <<"Typed", LinkText>>,
                                 <<"String", <<"b">> >> >> >>),
     id |-> 2, from_id |-> Some(2)]
ExportHello ==
    [msg_type |-> "message", text |-> Some(<<"String", TextHello>>), id |-> 2, from_id |-> Some(1)]
ExportService ==
    [msg_type |-> "service", text |-> Some(<<"String", TextFoo>>), id |-> 1, from_id |-> Some(2)]
ExportAnonymous ==
    [msg_type |-> "message", text |-> Some(<<"String", TextFoo>>), id |-> 1, from_id |-> None]

ExportEntries == {ExportFoo, ExportBarLinks, ExportHello, ExportService, ExportAnonymous}

\* the chats of a file, every chat listed once
ChatLists ==
    {<<>>} \cup { <<c>> : c \in ChatIds } \cup { cd \in ChatIds \X ChatIds : cd[1] # cd[2] }

RECURSIVE SumLen(_)
SumLen(seqs) == IF seqs = <<>> THEN 0 ELSE Len(Head(seqs)) + SumLen(Tail(seqs))

\* ExportedData: data.chats.list, of MaxExport entries in all
ExportFiles ==
    LET lists == UNION { [1..n -> ExportEntries] : n \in 0..MaxExport }
    IN UNION { { [i \in DOMAIN ids |-> [id |-> ids[i], messages |-> ms[i]]] :
                   ms \in { f \in [DOMAIN ids -> lists] : SumLen(f) <= MaxExport } } :
               ids \in ChatLists }

\* every entry counts as an ordinary message
is_message_any(entry) == TRUE

\* the filter |msg| msg.msg_type == "message"
is_message(entry) == entry.msg_type = "message"

\* the match on Text: the string, or the texts of the runs joined by ""
flatten(text) ==
    IF text[1] = "String" THEN text[2]
    ELSE Concat([i \in DOMAIN text[2] |-> text[2][i][2]])

\* the messages tree as sled::open finds it: new, or with a chat whose bytes are a
\* log or do not decode
PriorTrees ==
    {EmptyTree}
        \cup { sled_insert(EmptyTree, to_vec_ChatId(1), bytes) :
                 bytes \in {to_vec_messages(<<[id |-> 2, text |-> TextBar, from |-> 2]>>),
                            Corrupt} }

Crashed == [phase |-> "crashed", file |-> None, chat |-> 0, msg |-> 0]

\* the stores of an earlier run, and exported_messages.json present or not
InitLive ==
    /\ users = EmptyTree
    /\ messages \in PriorTrees
    /\ ret = NoCall
    /\ hist = NoHist
    /\ inflight = [t \in Threads |-> Idle]
    /\ last = NoUpdate
    /\ nops = 0
    /\ boot \in {Live} \cup { [phase |-> "import", file |-> Some(file), chat |-> 1, msg |-> 0] :
                                file \in ExportFiles }
    /\ pending = NoPending

\* the chat the import is at
ImportChat == boot.file.v[boot.chat]

\* persist.clear_messages(ChatId(chat.id)).unwrap()
ImportClear ==
    /\ boot.phase = "import"
    /\ boot.chat <= Len(boot.file.v)
    /\ boot.msg = 0
    /\ \E r \in clear_messages(messages, ImportChat.id, FALSE) :
         /\ messages' = r.tree
         /\ boot' = IF r.outcome = "Ok" THEN [boot EXCEPT !.msg = 1] ELSE Crashed
    /\ UNCHANGED <<users, ret, hist, inflight, last, nops, pending>>

\* one entry of chat.messages: filtered, flattened, classified, appended
ImportEntry ==
    /\ boot.phase = "import"
    /\ boot.chat <= Len(boot.file.v)
    /\ boot.msg \in 1..Len(ImportChat.messages)
    /\ LET entry == ImportChat.messages[boot.msg]
           next == [boot EXCEPT !.msg = boot.msg + 1]
       IN IF ~is_message(entry) THEN boot' = next /\ UNCHANGED messages
          ELSE IF ~entry.text.some THEN boot' = Crashed /\ UNCHANGED messages
          ELSE IF ~is_codewars_solution(flatten(entry.text.v))
          THEN boot' = next /\ UNCHANGED messages
          ELSE IF ~entry.from_id.some THEN boot' = Crashed /\ UNCHANGED messages
          ELSE \E r \in add_message(messages, ImportChat.id,
                                    [id |-> entry.id, text |-> flatten(entry.text.v),
                                     from |-> entry.from_id.v], FALSE, FALSE) :
                   /\ messages' = r.tree
                   /\ boot' = IF r.outcome = "Ok" THEN next ELSE Crashed
    /\ UNCHANGED <<users, ret, hist, inflight, last, nops, pending>>

\* the loop over data.chats.list goes to the next chat
ImportNextChat ==
    /\ boot.phase = "import"
    /\ boot.chat <= Len(boot.file.v)
    /\ boot.msg = Len(ImportChat.messages) + 1
    /\ boot' = [boot EXCEPT !.chat = boot.chat + 1, !.msg = 0]
    /\ UNCHANGED <<users, messages, ret, hist, inflight, last, nops, pending>>

\* every chat of the file is imported
Imported == boot.phase = "import" /\ boot.chat = Len(boot.file.v) + 1

\* std::fs::rename to used_exported_messages.json, then the dispatcher starts
ImportRename ==
    /\ Imported
    /\ boot' = Live
    /\ UNCHANGED <<users, messages, ret, hist, inflight, last, nops, pending>>

\* handle_messages takes an update: the handler runs to its first await, which comes
\* after its Persist calls; a handler with a reply to send is suspended there
Begin(handler, chat_id, from, arg, results) ==
    /\ dispatching
    /\ ~last.panicked
    /\ nops < MaxLiveOps
    /\ nops' = nops + 1
    /\ \E h \in results :
         /\ users' = h.users
         /\ messages' = h.messages
         /\ LET update == [handler |-> handler, chat |-> chat_id, from |-> from, arg |-> arg,
                           core |-> h.core, reply |-> h.reply, panicked |-> h.panicked]
            IN IF h.panicked \/ h.reply = NoReply
               THEN last' = update /\ UNCHANGED pending
               ELSE pending' = [ticket \in DOMAIN pending \cup {nops} |->
                                   IF ticket = nops THEN update ELSE pending[ticket]]
                    /\ UNCHANGED last
    /\ UNCHANGED <<ret, hist, inflight, boot>>

\* cx.answer(..).send().await of a suspended handler completes
Send ==
    /\ ~last.panicked
    /\ \E done \in DOMAIN pending :
         /\ pending' = [ticket \in DOMAIN pending \ {done} |-> pending[ticket]]
         /\ last' = pending[done]
    /\ UNCHANGED <<users, messages, ret, hist, inflight, nops, boot>>

\* the updates of the live phase: one chat, one sender, the texts and the commands
LiveChat == 1
LiveSender == Some(CHOOSE u \in TgUsers : u.id = 1)
LiveCommands == {"Help", "DeleteMe", "AddMe", "ShowStats", "Clear", "ShowSolved"}

BeginStoreMessage ==
    \E text \in BotTexts :
        Begin("store_message", LiveChat, LiveSender, <<1, text>>,
              store_message(users, messages, LiveChat, LiveSender, text, 1, <<FALSE, FALSE>>))

BeginCommand ==
    \E command \in LiveCommands :
        LET args == IF command = "AddMe" THEN <<"cw_a">> ELSE <<>>
        IN Begin(command, LiveChat, LiveSender, args,
                 answer_command(users, messages, LiveChat, LiveSender, command, args, <<FALSE, FALSE>>))

NextLive ==
    \/ ImportClear
    \/ ImportEntry
    \/ ImportNextChat
    \/ ImportRename
    \/ BeginStoreMessage
    \/ BeginCommand
    \/ Send

SpecLive == InitLive /\ [][NextLive]_vars

\* the texts of the log of a chat, none when its bytes do not decode
LogTexts(chat_id) ==
    LET log == Log(messages, chat_id)
    IN IF log.outcome = "Ok" THEN { log.v[i].text : i \in DOMAIN log.v } ELSE {}

\* C11: in every state reached by the import and by the messages and commands
\* after it, every entry of every log has a text that is a solution; ShowSolved
\* never hands kata_name a text that is none (it never panics).
C11_LogsHoldSolutionsOnly ==
    /\ \A c \in ChatIds : \A text \in LogTexts(c) : is_codewars_solution(text)
    /\ ~last.panicked

\* after an import, a live text that is no solution was handled and the log of the
\* chat, holding an imported and a live entry, is untouched by it
C11_Witness ==
    /\ last.handler = "store_message"
    /\ last.arg[2] = TextHello
    /\ last.core = <<>>
    /\ pending # NoPending
    /\ LogTexts(LiveChat) = {TextFoo, TextBar}

C11_WitnessListed ==
    /\ last.handler = "ShowSolved"
    /\ last.reply.lines = << <<"B", "a", "r">>, <<"F", "o", "o">> >>

\* the ChatMessage the import makes of an entry
ImportedMessage(entry) == [id |-> entry.id, text |-> flatten(entry.text.v), from |-> entry.from_id.v]

\* an ordinary message whose flattened text is a solution
IsOrdinarySolution(entry) ==
    /\ entry.msg_type = "message"
    /\ entry.text.some
    /\ is_codewars_solution(flatten(entry.text.v))

\* the entries of a chat of the file that belong in its log, in the order of the file
ExpectedLog(entries) ==
    LET kept == SelectSeq(entries, IsOrdinarySolution)
    IN [i \in DOMAIN kept |-> ImportedMessage(kept[i])]

C17_WitnessFiltered ==
    /\ Imported
    /\ \E i \in DOMAIN boot.file.v :
         /\ boot.file.v[i].messages \in {<<ExportService, ExportFoo>>, <<ExportFoo, ExportHello>>}
         /\ Len(Log(messages, boot.file.v[i].id).v) = 1

\* both chats of a file are imported
C17_WitnessTwoChats ==
    /\ Imported
    /\ Len(boot.file.v) = 2
    /\ \A i \in 1..2 : Len(Log(messages, boot.file.v[i].id).v) = 1

\* a is a prefix of b
IsPrefix(a, b) == Len(a) <= Len(b) /\ SubSeq(b, 1, Len(a)) = a

\* the message a storing handler appended
StoredMessage(update) == [id |-> update.arg[1], text |-> update.arg[2], from |-> update.from.v.id]

\* the update is a storing whose add_message returned Ok
StoredOk(update) == update.handler = "store_message" /\ update.core = <<"Ok">>

\* the log of the chat of a successful storing holds its message in the tree
Kept(tree, update) ==
    StoredOk(update) =>
        \E i \in DOMAIN Log(tree, update.chat).v :
            Log(tree, update.chat).v[i] = StoredMessage(update)

\* a step of the live phase: a storing that begins with success puts its message
\* at the end of the log; every log that decodes is a prefix of itself after the
\* step and still holds the message of every successful storing before it
LiveStepGrowsLogs ==
    dispatching =>
        /\ \A t \in DOMAIN pending' \ DOMAIN pending :
             StoredOk(pending'[t]) =>
                 Log(messages', pending'[t].chat).v
                     = Append(Log(messages, pending'[t].chat).v, StoredMessage(pending'[t]))
        /\ messages' # messages =>
             /\ \A c \in ChatIds :
                  Log(messages, c).outcome = "Ok" =>
                      /\ Log(messages', c).outcome = "Ok"
                      /\ IsPrefix(Log(messages, c).v, Log(messages', c).v)
             /\ Kept(messages', last)
             /\ \A t \in DOMAIN pending : Kept(messages', pending[t])

\* C19: the handlers interleave only at their awaits and none lies between the get
\* and the insert of a Persist call, so after the import no append is lost: every
\* log only grows, each snapshot a prefix of every later one, and the message of
\* every storing that returned success stays in the log, also while several
\* storings of one chat are under way.
C19_LiveLogsOnlyGrow == [][LiveStepGrowsLogs]_vars

\* two storings of one chat are suspended at their replies, both messages are kept
C19_Witness ==
    /\ Cardinality(DOMAIN pending) = 2
    /\ \A t \in DOMAIN pending : StoredOk(pending[t]) /\ pending[t].chat = LiveChat
    /\ \E t \in DOMAIN pending : pending[t].arg[2] = TextFoo
    /\ \E t \in DOMAIN pending : pending[t].arg[2] = TextBar
    /\ Len(Log(messages, LiveChat).v) >= 2

\* a Clear handled after a storing leaves the log as it was
C19_WitnessClear ==
    /\ last.handler = "Clear"
    /\ last.core = <<"Ok">>
    /\ \E t \in DOMAIN pending : StoredOk(pending[t])
    /\ Len(Log(messages, LiveChat).v) >= 1

----------------------------------------------------------------------------
(* main.rs: the handlers on stores that do not fail, every update handled    *)
(* to its end before the next                                                *)

\* the rosters of an earlier run, a chat's bytes decodable or not; no log yet
InitDispatch ==
    /\ users \in CorruptTrees
    /\ messages = EmptyTree
    /\ ret = NoCall
    /\ hist = NoHist
    /\ inflight = [t \in Threads |-> Idle]
    /\ last = NoUpdate
    /\ nops = 0
    /\ boot = Live
    /\ pending = NoPending

HandleMessage ==
    \E c \in ChatIds, from \in Senders, text \in BotTexts, id \in MsgIds :
        Handle("store_message", c, from, <<id, text>>,
               store_message(users, messages, c, from, text, id, <<FALSE, FALSE>>))

HandleCommand ==
    \E c \in ChatIds, from \in Senders, command \in LiveCommands :
        \E args \in IF command = "AddMe" THEN ArgLists ELSE {<<>>} :
            Handle(command, c, from, args,
                   answer_command(users, messages, c, from, command, args, <<FALSE, FALSE>>))

NextDispatch ==
    \/ HandleMessage
    \/ HandleCommand

SpecDispatch == InitDispatch /\ [][NextDispatch]_vars

\* the step is the handling of an update
HandledStep == nops' = nops + 1 /\ last'.handler # "none"

\* an AddMe of a user that does not carry exactly one argument
AddMeWithoutName(update) ==
    update.handler = "AddMe" /\ update.from.some /\ Len(update.arg) # 1

\* C18: an AddMe that does not carry exactly one argument is rejected before any
\* Persist call: no call is made, both trees stay as they are for every chat, and
\* the reply says that the user could not be added.
C18_AddMeNeedsOneArgument ==
    [][(HandledStep /\ AddMeWithoutName(last')) =>
           /\ last'.core = <<>>
           /\ users' = users
           /\ messages' = messages
           /\ last'.reply.text = "Couldn't add user because codewars username wasn't supplied"
      ]_vars

\* an AddMe with two arguments is refused in a chat that has a roster
C18_Witness ==
    /\ AddMeWithoutName(last)
    /\ Len(last.arg) = 2
    /\ last.reply.text = "Couldn't add user because codewars username wasn't supplied"
    /\ Roster(users, last.chat).outcome = "Ok"
    /\ DOMAIN Roster(users, last.chat).v # {}

C18_WitnessNoArgument ==
    /\ AddMeWithoutName(last)
    /\ Len(last.arg) = 0
    /\ last.reply.text = "Couldn't add user because codewars username wasn't supplied"

\* the entry of user u in the roster of chat c of the tree: the bytes of the chat
\* when they do not decode, the record, or none
RosterEntry(tree, c, u) ==
    LET roster == Roster(tree, c)
    IN IF roster.outcome # "Ok" THEN <<"undecodable", tree[to_vec_ChatId(c)]>>
       ELSE IF u \in DOMAIN roster.v THEN <<"entry", roster.v[u]>>
       ELSE <<"no entry">>

\* a step that handles an update
CommandStepFrame ==
    HandledStep =>
        LET update == last'
            c == update.chat
        IN /\ update.handler # "store_message" => messages' = messages
           /\ update.handler \in {"store_message", "Help", "ShowStats", "ShowSolved"} =>
                  users' = users
           /\ (update.handler \in {"AddMe", "DeleteMe"} /\ update.from.some) =>
                  LET u == update.from.v.id
                  IN /\ users' # users =>
                          /\ \A d \in ChatIds, w \in UserIds :
                               (d # c \/ w # u) =>
                                   RosterEntry(users', d, w) = RosterEntry(users, d, w)
                          /\ \A d \in ChatIds \ {c} : SameEntry(users, users', d)
                     /\ (update.handler = "AddMe" /\ update.core = <<"Ok">>) =>
                          /\ RosterEntry(users', c, u)[1] = "entry"
                          /\ RosterEntry(users', c, u)[2].telegram_id = u
                          /\ RosterEntry(users', c, u)[2].codewars_name = update.arg[1]
                     /\ (update.handler = "DeleteMe" /\ update.core = <<"Ok">>) =>
                          RosterEntry(users', c, u) = <<"no entry">>
           /\ (/\ users' # users
               /\ \E d \in ChatIds, w \in UserIds :
                    /\ RosterEntry(users, d, w)[1] = "entry"
                    /\ RosterEntry(users', d, w)[1] # "entry"
                    /\ ~(update.from.some /\ update.from.v.id = w))
                => update.handler = "Clear"

\* C20: an AddMe or a DeleteMe of user u in chat c changes at most the entry of u in
\* the roster of c: AddMe stores a record with the id of u, DeleteMe removes the
\* entry of u only; only Clear removes the entry of another user; no command
\* changes a log.
C20_CommandsTouchOwnEntryOnly == [][CommandStepFrame]_vars

\* user 1 registers in a chat in which user 2 is registered: both entries are there
C20_Witness ==
    /\ last.handler = "AddMe"
    /\ last.core = <<"Ok">>
    /\ last.from.v.id = 1
    /\ DOMAIN Roster(users, last.chat).v = {1, 2}

\* user 1 deregisters in a chat in which only user 2 is registered
C20_WitnessDeleteMe ==
    /\ last.handler = "DeleteMe"
    /\ last.core = <<"Ok">>
    /\ last.from.v.id = 1
    /\ DOMAIN Roster(users, last.chat).v = {2}

\* a Clear of user 1 removes the entry of user 2
C20_WitnessClear ==
    /\ last.handler = "Clear"
    /\ last.core = <<"Ok">>
    /\ last.from.v.id = 1
    /\ Roster(users, last.chat).v = EmptyMap
    /\ \E d \in ChatIds \ {last.chat} : DOMAIN Roster(users, d).v = {2}

====
